---- MODULE Spec2Model ----
(***************************************************************************)
(* alma-api-job-runner: one run of main (src/main.go, 2021 version):       *)
(* flag validation, LoadParameters, RetrySubmitJob/SubmitJob,              *)
(* MonitorJobInstance/GetJobInstance, the report and the exit status.      *)
(***************************************************************************)
EXTENDS Integers, Sequences, FiniteSets, TLC

VARIABLES
    pc,              \* position of main
    sendEmail,       \* *sendEmail flag
    maxRetries,      \* *maxRetries flag
    retry,           \* loop variable of RetrySubmitJob
    jobInstanceLink, \* main's jobInstanceLink (result of RetrySubmitJob)
    err,             \* main's err, as last assigned
    i,               \* loop variable of MonitorJobInstance (0 outside the call)
    instance,        \* main's instance (result of MonitorJobInstance)
    exitCode,        \* exit status of the process, -1 while it runs
    emails,          \* SendEmail calls made so far: <<[subject, ok]>>
    submitCalls,     \* number of SubmitJob calls made
    sleeps,          \* durations of the backoff sleeps of RetrySubmitJob, in seconds
    lastErr,         \* error of the last failed SubmitJob call
    lastLink,        \* link returned by the last successful SubmitJob call
    fetchURLs,       \* the URLs GetJobInstance was called with
    lastFetched,     \* the snapshot of the last GetJobInstance call
    lastOp,          \* the last blocking operation performed
    fatal,           \* which fatal path, if any, main has taken
    input,           \* the argument of the function under study (unused by main)
    output,          \* its result, once applied
    done             \* whether it has been applied

vars == <<pc, sendEmail, maxRetries, retry, jobInstanceLink, err, i, instance,
          exitCode, emails, submitCalls, sleeps, lastErr, lastLink, fetchURLs,
          lastFetched, lastOp, fatal, input, output, done>>

\* Largest value of the retries flag explored.
MaxRetriesBound == 3

\* for i := 1; i < 2761; i++
MonitorLimit == 2761

\* time.Sleep(30 * time.Second)
PollSeconds == 30

Nil == "nil"

\* An error value: what it is, and the errors whose value it carries (wraps).
\* api is the result of Collapse that the error's text embeds, if any.
NoAPI == [text |-> "", code |-> 0]

NoErr == [kind |-> "nil", status |-> 0, detail |-> "", wraps |-> <<>>, api |-> NoAPI]

MkErr(k, s, d) == [kind |-> k, status |-> s, detail |-> d, wraps |-> <<>>, api |-> NoAPI]

\* fmt.Errorf("alma API request failed, HTTP status %v, %v", resp.Status, apiErr.Collapse())
APIErr(s, c) == [kind |-> "API", status |-> s, detail |-> c.text, wraps |-> <<>>, api |-> c]

\* fmt.Errorf("maximum number of retries reached")
ErrMaxRetries == MkErr("MaxRetries", 0, "maximum number of retries reached")

\* fmt.Errorf("job monitor has been running for 23 hours, exiting")
ErrMonitorTimeout == MkErr("MonitorTimeout", 0, "job monitor has been running for 23 hours, exiting")

(***************************************************************************)
(* APIError.Collapse.  An error list is a sequence of entries [code,       *)
(* message]; the result is the text of the error and the code it names.    *)
(* src/ holds two versions: Collapse (almaerror.go, a table of codes) and  *)
(* Collapse2021 (unnamed/part_001, the code and message as received).      *)
(***************************************************************************)
Entry(c, m) == [code |-> c, message |-> m]

CodeText(c) ==
    CASE c = 402215 -> "invalid job id format"
      [] c = 402216 -> "invalid job id"
      [] c = 402218 -> "invalid job instance id"
      [] c = 402220 -> "operation was not provided"
      [] c = 402221 -> "operation is not supported"
      [] c = 402222 -> "execution threshold reached"
      [] c = 402223 -> "execution threshold reached"
      [] c = 402224 -> "an internal error occured"
      [] c = 402225 -> "an internal error occured"
      [] c = 402226 -> "an internal error occured"
      [] c = 402228 -> "mandatory parameter is missing from input"
      [] c = 402229 -> "mandatory parameter value is empty"
      [] c = 402248 -> "cannot submit scheduled job"
      [] c = 402249 -> "invalid scheduled job category"
      [] c = 402231 -> "job in consisted of more than one task"
      [] OTHER -> "unknown error"

\* The error of one entry: the default case names no code.
EntryError(e) ==
    IF CodeText(e.code) = "unknown error"
    THEN [text |-> "unknown error", code |-> 0]
    ELSE [text |-> CodeText(e.code), code |-> e.code]

\* Collapse that reports the last entry of the list.
CollapseLast(errorList) ==
    IF Len(errorList) > 0
    THEN EntryError(errorList[Len(errorList)])
    ELSE [text |-> "unreachable error", code |-> 0]

Collapse(errorList) ==
    IF Len(errorList) > 0
    THEN EntryError(errorList[1])
    ELSE [text |-> "unreachable error", code |-> 0]

Collapse2021(errorList) ==
    IF Len(errorList) > 0
    THEN [text |-> errorList[1].message, code |-> errorList[1].code]
    ELSE [text |-> "unknown error", code |-> 0]

(***************************************************************************)
(* HTTP responses.  ok = FALSE: client.Do returned an error.               *)
(* body.type: "job" (a job record), "instance" (a job instance record),    *)
(* "errors" (a web_service_result), "garbage" (not decodable).             *)
(***************************************************************************)
NoBody == [type |-> "garbage"]

TransportFailure == [ok |-> FALSE, status |-> 0, body |-> NoBody]

Resp(s, b) == [ok |-> TRUE, status |-> s, body |-> b]

JobBody(hasInfo, link) == [type |-> "job", hasInfo |-> hasInfo, link |-> link]

ErrorsBody(codes) == [type |-> "errors", codes |-> codes]

InstanceBody(status, endTime) == [type |-> "instance", status |-> status, endTime |-> endTime]

\* A body whose read fails part-way (the connection breaks or times out).
TruncatedBody == [type |-> "truncated"]

\* string(bodyBytes): the body as received
RawBody(b) == b.type

\* Result of SubmitJob: a link and an error, or a panic (nil dereference).
SubmitResult(link, e, panics) == [link |-> link, err |-> e, panics |-> panics]

\* Submit400 that classifies an undecodable body as an unknown API error.
Submit400Degrades(r) ==
    IF r.body.type = "errors"
    THEN SubmitResult("", APIErr(400, Collapse(r.body.codes)), FALSE)
    ELSE SubmitResult("", APIErr(400, [text |-> "unknown error", code |-> 0]), FALSE)

\* if resp.StatusCode == 400: decode the body as an APIError and collapse it.
Submit400(r) ==
    IF r.body.type = "errors"
    THEN SubmitResult("", APIErr(400, Collapse(r.body.codes)), FALSE)
    ELSE SubmitResult("", MkErr("Unreadable", 400, "couldn't read body"), FALSE)

\* SubmitNotOK that reports the status without the body.
SubmitNotOKStatusOnly(r) ==
    SubmitResult("", MkErr("HTTPStatus", r.status, ""), FALSE)

\* if resp.StatusCode != 200: the status and the body as the error.
SubmitNotOK(r) ==
    IF r.body.type = "truncated"
    THEN SubmitResult("", MkErr("BodyRead", r.status, "couldn't read body"), FALSE)
    ELSE SubmitResult("", MkErr("HTTPStatus", r.status, RawBody(r.body)), FALSE)

\* StatusOK that accepts every 2xx status.
StatusOK2xx(s) == s \in 200 .. 299

\* resp.StatusCode != 200 is an error
StatusOK(s) == s = 200

SubmitJob(r) ==
    IF ~r.ok
    THEN SubmitResult("", MkErr("Transport", 0, "client.Do"), FALSE)
    ELSE IF r.status = 400
    THEN Submit400(r)
    ELSE IF ~StatusOK(r.status)
    THEN SubmitNotOK(r)
    ELSE IF r.body.type # "job"
    THEN SubmitResult("", MkErr("Decode", 200, "xml"), FALSE)
    ELSE IF ~r.body.hasInfo
    THEN SubmitResult("", NoErr, TRUE)
    ELSE SubmitResult(r.body.link, NoErr, FALSE)

\* A *AlmaJobInstance: ptr is FALSE for the nil pointer; status is Nil when
\* the Status pointer is nil (the document has no status element).
NilInstance == [ptr |-> FALSE, status |-> Nil, endTime |-> ""]

\* instance = &AlmaJobInstance{}
EmptyInstance == [ptr |-> TRUE, status |-> Nil, endTime |-> ""]

GetResult(inst, e) == [instance |-> inst, err |-> e]

\* GetJobInstance that treats 400 like any other error status.
GetJobInstanceNoCollapse(r) ==
    IF ~r.ok
    THEN GetResult(EmptyInstance, MkErr("Transport", 0, "client.Do"))
    ELSE IF r.status # 200
    THEN IF r.body.type = "truncated"
         THEN GetResult(EmptyInstance, MkErr("BodyRead", r.status, "couldn't read body"))
         ELSE GetResult(EmptyInstance, MkErr("HTTPStatus", r.status, RawBody(r.body)))
    ELSE IF r.body.type # "instance"
    THEN GetResult(EmptyInstance, MkErr("Decode", 200, "xml"))
    ELSE GetResult([ptr |-> TRUE, status |-> r.body.status, endTime |-> r.body.endTime], NoErr)

GetJobInstance(r) ==
    IF ~r.ok
    THEN GetResult(EmptyInstance, MkErr("Transport", 0, "client.Do"))
    ELSE IF r.status = 400
    THEN IF r.body.type = "errors"
         THEN GetResult(EmptyInstance, APIErr(400, Collapse(r.body.codes)))
         ELSE GetResult(EmptyInstance, MkErr("Unreadable", 400, "couldn't read body"))
    ELSE IF r.status # 200
    THEN IF r.body.type = "truncated"
         THEN GetResult(EmptyInstance, MkErr("BodyRead", r.status, "couldn't read body"))
         ELSE GetResult(EmptyInstance, MkErr("HTTPStatus", r.status, RawBody(r.body)))
    ELSE IF r.body.type # "instance"
    THEN GetResult(EmptyInstance, MkErr("Decode", 200, "xml"))
    ELSE GetResult([ptr |-> TRUE, status |-> r.body.status, endTime |-> r.body.endTime], NoErr)

\* IsTerminal without the test for the transitional FINALIZING status.
IsTerminalEndTimeOnly(inst) == inst.endTime # ""

\* instance.EndTime != "" && instance.Status.Value != "FINALIZING"
IsTerminal(inst) == inst.endTime # "" /\ inst.status # "FINALIZING"

\* url.Parse(jobInstanceLink) succeeds
URLParses(link) == link # "%zz"

\* InstanceURL that requests a fixed URL instead of the returned link.
InstanceURLFixed(link) == "L1"

\* url.String() of the parsed instance URL, as GetJobInstance requests it
InstanceURL(link) == link

\* LoopContinues with an off-by-one loop condition.
LoopContinuesInclusive(r, n) == r <= n

\* retry < maxRetries, the loop condition of RetrySubmitJob
LoopContinues(r, n) == r < n

\* ExhaustionError that wraps the last failure.
ExhaustionErrorWrapping(last) == [ErrMaxRetries EXCEPT !.wraps = <<last>>]

\* The error RetrySubmitJob returns after the loop, last being the error of
\* the last failed attempt.
ExhaustionError(last) == ErrMaxRetries

\* SleepDur that doubles instead of squaring.
SleepDurLinear(r) == 2 * (r + 1) - 1

\* time.Duration((retry+1)*(retry+1)) * time.Second
SleepDur(r) == (r + 1) * (r + 1)

(***************************************************************************)
(* The responses the remote service gives in a run.                        *)
(***************************************************************************)
SubmitResponses ==
    { TransportFailure,
      Resp(400, ErrorsBody(<<Entry(402229, "m1")>>)),
      Resp(500, NoBody),
      Resp(200, NoBody),
      Resp(200, JobBody(FALSE, "")),
      Resp(200, JobBody(TRUE, "L1")),
      Resp(200, JobBody(TRUE, "L2")),
      Resp(200, JobBody(TRUE, "%zz")) }

FetchResponses ==
    { TransportFailure,
      Resp(400, ErrorsBody(<<Entry(402218, "m1")>>)),
      Resp(500, NoBody),
      Resp(200, NoBody),
      Resp(200, InstanceBody(Nil, "")),
      Resp(200, InstanceBody("RUNNING", "")),
      Resp(200, InstanceBody("FINALIZING", "t1")),
      Resp(200, InstanceBody("COMPLETED", "t2")) }

Init ==
    /\ pc = "flags"
    /\ sendEmail \in BOOLEAN
    /\ maxRetries \in {-1} \cup (0 .. MaxRetriesBound)
    /\ retry = 0
    /\ jobInstanceLink = ""
    /\ err = NoErr
    /\ i = 0
    /\ instance = NilInstance
    /\ exitCode = -1
    /\ emails = <<>>
    /\ submitCalls = 0
    /\ sleeps = <<>>
    /\ lastErr = NoErr
    /\ lastLink = Nil
    /\ fetchURLs = {}
    /\ lastFetched = NilInstance
    /\ lastOp = "none"
    /\ fatal = "none"
    /\ input = "none"
    /\ output = "none"
    /\ done = FALSE

retryVars == <<retry, jobInstanceLink, submitCalls, sleeps, lastErr, lastLink>>
monitorVars == <<i, instance, fetchURLs, lastFetched>>
flagVars == <<sendEmail, maxRetries>>
caseVars == <<input, output, done>>

\* log.Fatal on a missing or invalid flag: exit status 1, no report.
FlagsFatal ==
    /\ pc = "flags"
    /\ pc' = "exited"
    /\ exitCode' = 1
    /\ fatal' = "flags"
    /\ UNCHANGED <<caseVars, flagVars, retryVars, monitorVars, err, emails, lastOp>>

FlagsOK ==
    /\ pc = "flags"
    /\ pc' = "build_url"
    /\ UNCHANGED <<caseVars, flagVars, retryVars, monitorVars, err, emails, lastOp, exitCode, fatal>>

\* url.Parse of the job URL.
BuildJobURL ==
    /\ pc = "build_url"
    /\ \E ok \in BOOLEAN :
         IF ok
         THEN pc' = "load" /\ UNCHANGED <<err, fatal>>
         ELSE pc' = "quit" /\ err' = MkErr("URL", 0, "job url") /\ fatal' = "joburl"
    /\ UNCHANGED <<caseVars, flagVars, retryVars, monitorVars, emails, lastOp, exitCode>>

\* LoadParameters whose error main does not act on.
LoadParametersIgnored ==
    /\ pc = "load"
    /\ \E res \in {"ok", "unreadable", "malformed"} :
         IF res = "ok"
         THEN pc' = "retry" /\ UNCHANGED <<err, fatal>>
         ELSE pc' = "retry" /\ err' = MkErr("Load", 0, res) /\ fatal' = "load"
    /\ UNCHANGED <<caseVars, flagVars, retryVars, monitorVars, emails, lastOp, exitCode>>

\* LoadParameters and main's handling of its result.
LoadParameters ==
    /\ pc = "load"
    /\ \E res \in {"ok", "unreadable", "malformed"} :
         IF res = "ok"
         THEN pc' = "retry" /\ UNCHANGED <<err, fatal>>
         ELSE pc' = "quit" /\ err' = MkErr("Load", 0, res) /\ fatal' = "load"
    /\ UNCHANGED <<caseVars, flagVars, retryVars, monitorVars, emails, lastOp, exitCode>>

\* One iteration of the loop of RetrySubmitJob whose SubmitJob call fails.
SubmitFails ==
    /\ pc = "retry"
    /\ LoopContinues(retry, maxRetries)
    /\ \E r \in SubmitResponses :
         LET res == SubmitJob(r) IN
         /\ ~res.panics
         /\ res.err # NoErr
         /\ lastErr' = res.err
    /\ submitCalls' = submitCalls + 1
    /\ sleeps' = Append(sleeps, SleepDur(retry))
    /\ lastOp' = "backoff"
    /\ retry' = retry + 1
    /\ UNCHANGED <<pc, caseVars, flagVars, jobInstanceLink, lastLink, monitorVars, err, emails, exitCode, fatal>>

\* The iteration whose SubmitJob call succeeds: RetrySubmitJob returns the link.
SubmitSucceeds ==
    /\ pc = "retry"
    /\ LoopContinues(retry, maxRetries)
    /\ \E r \in SubmitResponses :
         LET res == SubmitJob(r) IN
         /\ ~res.panics
         /\ res.err = NoErr
         /\ jobInstanceLink' = res.link
         /\ lastLink' = res.link
    /\ submitCalls' = submitCalls + 1
    /\ lastOp' = "submit"
    /\ retry' = 0
    /\ err' = NoErr
    /\ pc' = "parse_link"
    /\ UNCHANGED <<caseVars, flagVars, sleeps, lastErr, monitorVars, emails, exitCode, fatal>>

\* returnedJob.AdditionalInfo is nil: the dereference panics, exit status 2.
SubmitPanics ==
    /\ pc = "retry"
    /\ LoopContinues(retry, maxRetries)
    /\ \E r \in SubmitResponses : SubmitJob(r).panics
    /\ submitCalls' = submitCalls + 1
    /\ lastOp' = "submit"
    /\ pc' = "exited"
    /\ exitCode' = 2
    /\ fatal' = "panic"
    /\ UNCHANGED <<caseVars, flagVars, retry, jobInstanceLink, sleeps, lastErr, lastLink, monitorVars, err, emails>>

\* The loop of RetrySubmitJob ends: the exhaustion error, handled by main.
RetryExhausted ==
    /\ pc = "retry"
    /\ ~LoopContinues(retry, maxRetries)
    /\ jobInstanceLink' = ""
    /\ err' = ExhaustionError(lastErr)
    /\ retry' = 0
    /\ pc' = "quit"
    /\ fatal' = "exhausted"
    /\ UNCHANGED <<caseVars, flagVars, submitCalls, sleeps, lastErr, lastLink, monitorVars, emails, lastOp, exitCode>>

\* url.Parse(jobInstanceLink)
ParseInstanceURL ==
    /\ pc = "parse_link"
    /\ IF URLParses(jobInstanceLink)
       THEN pc' = "monitor" /\ i' = 1 /\ UNCHANGED <<err, fatal>>
       ELSE pc' = "quit" /\ err' = MkErr("URL", 0, "instance url") /\ fatal' = "badurl" /\ i' = i
    /\ UNCHANGED <<caseVars, flagVars, retryVars, instance, fetchURLs, lastFetched, emails, lastOp, exitCode>>

\* MonitorContinues that lets the counter reach the limit.
MonitorContinuesInclusive(n) == n <= MonitorLimit

\* for i := 1; i < 2761; i++
MonitorContinues(n) == n < MonitorLimit

\* The GetJobInstance call of one iteration of the loop of MonitorJobInstance.
Fetch(r) == GetJobInstance(r)

\* FetchFails that sleeps and polls again instead of returning.
FetchFailsAndPolls ==
    /\ pc = "monitor"
    /\ MonitorContinues(i)
    /\ \E r \in FetchResponses :
         LET res == Fetch(r) IN
         /\ res.err # NoErr
         /\ err' = res.err
    /\ fetchURLs' = fetchURLs \cup {InstanceURL(jobInstanceLink)}
    /\ lastOp' = "poll_sleep"
    /\ i' = i + 1
    /\ fatal' = "monitor"
    /\ UNCHANGED <<pc, caseVars, flagVars, retryVars, instance, lastFetched, emails, exitCode>>

\* The fetch of an iteration fails: MonitorJobInstance returns the error at once.
FetchFails ==
    /\ pc = "monitor"
    /\ MonitorContinues(i)
    /\ \E r \in FetchResponses :
         LET res == Fetch(r) IN
         /\ res.err # NoErr
         /\ instance' = res.instance
         /\ err' = res.err
    /\ fetchURLs' = fetchURLs \cup {InstanceURL(jobInstanceLink)}
    /\ lastOp' = "fetch"
    /\ i' = 0
    /\ pc' = "quit"
    /\ fatal' = "monitor"
    /\ UNCHANGED <<caseVars, flagVars, retryVars, lastFetched, emails, exitCode>>

\* instance.Status is nil: log.Println of instance.Status.Desc panics, exit status 2.
FetchPanics ==
    /\ pc = "monitor"
    /\ MonitorContinues(i)
    /\ \E r \in FetchResponses :
         LET res == Fetch(r) IN
         /\ res.err = NoErr
         /\ res.instance.status = Nil
         /\ lastFetched' = res.instance
    /\ fetchURLs' = fetchURLs \cup {InstanceURL(jobInstanceLink)}
    /\ lastOp' = "fetch"
    /\ i' = 0
    /\ pc' = "exited"
    /\ exitCode' = 2
    /\ fatal' = "panic"
    /\ UNCHANGED <<caseVars, flagVars, retryVars, instance, err, emails>>

\* The fetched snapshot is terminal: MonitorJobInstance returns it.
FetchTerminal ==
    /\ pc = "monitor"
    /\ MonitorContinues(i)
    /\ \E r \in FetchResponses :
         LET res == Fetch(r) IN
         /\ res.err = NoErr
         /\ res.instance.status # Nil
         /\ IsTerminal(res.instance)
         /\ lastFetched' = res.instance
         /\ instance' = res.instance
    /\ fetchURLs' = fetchURLs \cup {InstanceURL(jobInstanceLink)}
    /\ lastOp' = "fetch"
    /\ err' = NoErr
    /\ i' = 0
    /\ pc' = "report"
    /\ UNCHANGED <<caseVars, flagVars, retryVars, emails, exitCode, fatal>>

\* FetchInProgress that does not count the iteration.
FetchInProgressNoCount ==
    /\ pc = "monitor"
    /\ MonitorContinues(i)
    /\ \E r \in FetchResponses :
         LET res == Fetch(r) IN
         /\ res.err = NoErr
         /\ res.instance.status # Nil
         /\ ~IsTerminal(res.instance)
         /\ lastFetched' = res.instance
    /\ fetchURLs' = fetchURLs \cup {InstanceURL(jobInstanceLink)}
    /\ lastOp' = "poll_sleep"
    /\ i' = i
    /\ UNCHANGED <<pc, caseVars, flagVars, retryVars, instance, err, emails, exitCode, fatal>>

\* The fetched snapshot is not terminal: sleep 30 seconds and go round.
FetchInProgress ==
    /\ pc = "monitor"
    /\ MonitorContinues(i)
    /\ \E r \in FetchResponses :
         LET res == Fetch(r) IN
         /\ res.err = NoErr
         /\ res.instance.status # Nil
         /\ ~IsTerminal(res.instance)
         /\ lastFetched' = res.instance
    /\ fetchURLs' = fetchURLs \cup {InstanceURL(jobInstanceLink)}
    /\ lastOp' = "poll_sleep"
    /\ i' = i + 1
    /\ UNCHANGED <<pc, caseVars, flagVars, retryVars, instance, err, emails, exitCode, fatal>>

\* The loop of MonitorJobInstance ends: the named result instance was never
\* assigned (the loop declares its own), so nil is returned with the error.
MonitorTimeout ==
    /\ pc = "monitor"
    /\ ~MonitorContinues(i)
    /\ instance' = NilInstance
    /\ err' = ErrMonitorTimeout
    /\ i' = 0
    /\ pc' = "quit"
    /\ fatal' = "timeout"
    /\ UNCHANGED <<caseVars, flagVars, retryVars, fetchURLs, lastFetched, emails, lastOp, exitCode>>

\* xml.MarshalIndent of the final instance, printed and added to the report.
Report ==
    /\ pc = "report"
    /\ pc' = "success_email"
    /\ UNCHANGED <<caseVars, flagVars, retryVars, monitorVars, err, emails, lastOp, exitCode, fatal>>

\* The report email of a finished job, then main returns: exit status 0.
SuccessEmail ==
    /\ pc = "success_email"
    /\ IF sendEmail
       THEN \E ok \in BOOLEAN :
              /\ emails' = Append(emails, [subject |-> "status", ok |-> ok])
              /\ lastOp' = "email"
       ELSE UNCHANGED <<emails, lastOp>>
    /\ pc' = "exited"
    /\ exitCode' = 0
    /\ UNCHANGED <<caseVars, flagVars, retryVars, monitorVars, err, fatal>>

\* optionalEmailAndQuit: the error report, when email is enabled.
QuitEmail ==
    /\ pc = "quit"
    /\ IF sendEmail
       THEN \E ok \in BOOLEAN :
              /\ emails' = Append(emails, [subject |-> "error", ok |-> ok])
              /\ lastOp' = "email"
       ELSE UNCHANGED <<emails, lastOp>>
    /\ pc' = "os_exit"
    /\ UNCHANGED <<caseVars, flagVars, retryVars, monitorVars, err, exitCode, fatal>>

\* OsExit that reports success.
OsExitZero ==
    /\ pc = "os_exit"
    /\ pc' = "exited"
    /\ exitCode' = 0
    /\ UNCHANGED <<caseVars, flagVars, retryVars, monitorVars, err, emails, lastOp, fatal>>

\* optionalEmailAndQuit: os.Exit(1)
OsExit ==
    /\ pc = "os_exit"
    /\ pc' = "exited"
    /\ exitCode' = 1
    /\ UNCHANGED <<caseVars, flagVars, retryVars, monitorVars, err, emails, lastOp, fatal>>

Next ==
    \/ FlagsFatal
    \/ FlagsOK
    \/ BuildJobURL
    \/ LoadParameters
    \/ SubmitFails
    \/ SubmitSucceeds
    \/ SubmitPanics
    \/ RetryExhausted
    \/ ParseInstanceURL
    \/ FetchFails
    \/ FetchPanics
    \/ FetchTerminal
    \/ FetchInProgress
    \/ MonitorTimeout
    \/ Report
    \/ SuccessEmail
    \/ QuitEmail
    \/ OsExit

Spec == Init /\ [][Next]_vars

(***************************************************************************)
(* Properties of a run of main.                                            *)
(***************************************************************************)
QuitChain == {"quit", "os_exit", "exited"}

ListedFatal == {"load", "exhausted", "badurl", "monitor", "timeout"}

\* MonitorJobInstance has returned a terminal status and no error.
MonitorReturnedTerminal ==
    /\ instance.ptr
    /\ instance.endTime # ""
    /\ instance.status \notin {Nil, "FINALIZING"}
    /\ err = NoErr

ErrorReportAttempted ==
    /\ Len(emails) = 1
    /\ emails[1].subject = "error"

\* C1: the process exits with status 0 exactly when MonitorJobInstance returned
\* a terminal status without error; after a parameter load failure, retry
\* exhaustion, an unparsable instance URL, a monitor failure or a monitor
\* timeout the run goes no further, the exit status is non-zero, and with
\* email enabled the error report has been attempted before os.Exit.
C1_ExitStatus ==
    /\ (pc = "exited" => (exitCode = 0 <=> MonitorReturnedTerminal))
    /\ (fatal \in ListedFatal =>
          /\ pc \in QuitChain
          /\ (pc = "exited" => exitCode > 0)
          /\ (pc \in {"os_exit", "exited"} /\ sendEmail => ErrorReportAttempted))

C1_Witness ==
    /\ pc = "exited"
    /\ fatal = "monitor"
    /\ sendEmail
    /\ exitCode = 1
    /\ ErrorReportAttempted

\* The squares 1, 4, ..., k*k.
Squares(k) == [j \in 1 .. k |-> j * j]

\* C2: when SubmitJob fails k times and then succeeds (k < maxRetries),
\* RetrySubmitJob has made k+1 submit calls and k backoff sleeps of 1, 4, ...,
\* k*k seconds in that order, and returns the link of call k+1 with no error.
C2_SuccessAfterFailures ==
    pc = "parse_link" =>
        /\ maxRetries >= 1
        /\ Len(sleeps) < maxRetries
        /\ submitCalls = Len(sleeps) + 1
        /\ sleeps = Squares(Len(sleeps))
        /\ jobInstanceLink = lastLink
        /\ lastLink # Nil
        /\ err = NoErr

C2_Witness ==
    /\ pc = "parse_link"
    /\ maxRetries = 3
    /\ submitCalls = 3
    /\ sleeps = <<1, 4>>
    /\ jobInstanceLink = "L2"

\* C3: when every SubmitJob call fails (maxRetries >= 1), RetrySubmitJob makes
\* exactly maxRetries submit calls and maxRetries - 1 backoff sleeps: no sleep
\* follows the final failed attempt.
C3_NoSleepAfterLastFailure ==
    fatal = "exhausted" /\ maxRetries >= 1 =>
        /\ submitCalls = maxRetries
        /\ Len(sleeps) = maxRetries - 1

\* C4 as stated: the exhaustion error wraps the failure of the last attempt.
C4_ExhaustionWrapsLastFailure ==
    fatal = "exhausted" /\ maxRetries >= 1 => err.wraps = <<lastErr>>

\* C4 as amended: the exhaustion error is the fixed "maximum number of retries
\* reached" error, which carries no error: the failure of the last attempt
\* cannot be recovered from it.
C4_ExhaustionIsFixedError ==
    fatal = "exhausted" /\ maxRetries >= 1 =>
        /\ lastErr # NoErr
        /\ err.kind = "MaxRetries"
        /\ err.wraps = <<>>

C4_Witness ==
    /\ fatal = "exhausted"
    /\ maxRetries = 2
    /\ submitCalls = 2
    /\ lastErr.kind = "API"
    /\ err.kind = "MaxRetries"

\* C5: with maxRetries <= 0 RetrySubmitJob returns the exhaustion error at once:
\* no SubmitJob call and no backoff sleep is ever made.
C5_NoAttemptWithoutRetries ==
    maxRetries <= 0 =>
        /\ submitCalls = 0
        /\ sleeps = <<>>
        /\ lastLink = Nil
        /\ pc \in {"flags", "build_url", "load", "retry"} \cup QuitChain
        /\ (pc \in QuitChain /\ fatal \notin {"flags", "joburl", "load"} =>
              fatal = "exhausted" /\ err.kind = "MaxRetries")

C5_Witness ==
    /\ maxRetries = -1
    /\ fatal = "exhausted"
    /\ pc = "exited"
    /\ submitCalls = 0
    /\ sleeps = <<>>

\* C6: a fetched snapshot (one that has a status) is returned as terminal,
\* without error, exactly when its end time is non-empty and its status is not
\* FINALIZING; otherwise the loop goes round, so (FINALIZING, end time set) does
\* not end the loop and a following (COMPLETED, end time set) does.
C6_TerminalIff ==
    [][ pc = "monitor" /\ i < MonitorLimit /\ pc' \in {"monitor", "report"} =>
          LET s == lastFetched' IN
          /\ s.ptr /\ s.status # Nil
          /\ (pc' = "report" <=> (s.endTime # "" /\ s.status # "FINALIZING"))
          /\ (pc' = "report" => instance' = s /\ err' = NoErr)
          /\ (pc' = "monitor" => i' = i + 1 /\ instance' = instance) ]_vars

C6_Witness ==
    /\ pc = "monitor"
    /\ i = 2
    /\ lastFetched.status = "FINALIZING"
    /\ lastFetched.endTime # ""

\* C7: at the iteration cap MonitorJobInstance returns the timeout error and,
\* with it, the snapshot of the last fetch (not nil).
C7_TimeoutReturnsLastSnapshot ==
    fatal = "timeout" =>
        /\ err.kind = "MonitorTimeout"
        /\ instance.ptr
        /\ instance = lastFetched

FetchErrorKinds == {"Transport", "API", "Unreadable", "HTTPStatus", "Decode"}

\* C8: a failed GetJobInstance call ends MonitorJobInstance at once with that
\* error: the failing step leaves the loop without a poll sleep, and no fetch or
\* sleep follows it.
C8_FetchFailureIsFatal ==
    /\ [](fatal = "monitor" =>
            /\ pc \in QuitChain
            /\ err.kind \in FetchErrorKinds
            /\ lastOp \in {"fetch", "email"})
    /\ [][fatal = "monitor" => UNCHANGED <<fetchURLs, lastFetched, i, err>>]_vars

C8_Witness ==
    /\ fatal = "monitor"
    /\ lastFetched.ptr
    /\ lastFetched.status = "RUNNING"
    /\ pc = "exited"

\* C9: a status fetch happens only after a SubmitJob call has succeeded, every
\* fetch uses the link that call returned, and no SubmitJob call follows a
\* successful one.
C9_FetchUsesReturnedHandle ==
    /\ [](fetchURLs # {} => lastLink # Nil /\ fetchURLs = {lastLink})
    /\ [](pc = "monitor" => lastLink # Nil)
    /\ [][lastLink # Nil => submitCalls' = submitCalls /\ lastLink' = lastLink]_vars

C9_Witness ==
    /\ fetchURLs = {"L2"}
    /\ lastLink = "L2"
    /\ submitCalls = 2

\* C10: when loading the parameters document fails, no SubmitJob call and no
\* status fetch is ever made and the exit status is non-zero.
C10_LoadFailureIsFatal ==
    fatal = "load" =>
        /\ pc \in QuitChain
        /\ submitCalls = 0
        /\ fetchURLs = {}
        /\ (pc = "exited" => exitCode > 0)

C10_Witness ==
    /\ fatal = "load"
    /\ err.detail = "malformed"
    /\ pc = "exited"
    /\ exitCode = 1

(***************************************************************************)
(* The functions on their own: each specification below draws an argument  *)
(* in its initial state and applies one function to it.                    *)
(***************************************************************************)
\* main is not running: its variables are at rest, pc names the function.
Idle(p) ==
    /\ pc = p
    /\ sendEmail = FALSE
    /\ maxRetries = 0
    /\ retry = 0
    /\ jobInstanceLink = ""
    /\ err = NoErr
    /\ i = 0
    /\ instance = NilInstance
    /\ exitCode = -1
    /\ emails = <<>>
    /\ submitCalls = 0
    /\ sleeps = <<>>
    /\ lastErr = NoErr
    /\ lastLink = Nil
    /\ fetchURLs = {}
    /\ lastFetched = NilInstance
    /\ lastOp = "none"
    /\ fatal = "none"

mainVars == <<pc, sendEmail, maxRetries, retry, jobInstanceLink, err, i, instance,
              exitCode, emails, submitCalls, sleeps, lastErr, lastLink, fetchURLs,
              lastFetched, lastOp, fatal>>

\* Sequences over S of length at most n.
SeqsUpTo(S, n) == UNION {[1 .. k -> S] : k \in 0 .. n}

\* Longest error list explored.
MaxListLen == 2

\* Codes of the table that share a text, one with a text of its own, one unknown.
CollapseCodes == {402222, 402223, 402224, 402225, 402226, 402229, 999999}

ErrorEntries == {Entry(c, m) : c \in CollapseCodes, m \in {"m1", "m2"}}

InitCollapse ==
    /\ Idle("collapse")
    /\ input \in SeqsUpTo(ErrorEntries, MaxListLen)
    /\ output = [table |-> NoAPI, v2021 |-> NoAPI]
    /\ done = FALSE

\* apiErr.Collapse(), in each version of the method.
ApplyCollapse ==
    /\ pc = "collapse"
    /\ ~done
    /\ output' = [table |-> Collapse(input), v2021 |-> Collapse2021(input)]
    /\ done' = TRUE
    /\ UNCHANGED <<mainVars, input>>

SpecCollapse == InitCollapse /\ [][ApplyCollapse]_vars

\* C11: for a non-empty error list the result of Collapse is the result for
\* the list's first entry alone, whatever entries follow (so two lists with
\* equal first entries give equal results).
C11_FirstEntryDecides ==
    pc = "collapse" /\ done /\ Len(input) > 0 =>
        /\ output.table = Collapse(<<input[1]>>)
        /\ output.v2021 = Collapse2021(<<input[1]>>)
        /\ output.table.code \in {0, input[1].code}
        /\ output.v2021.code = input[1].code

C11_Witness ==
    /\ pc = "collapse"
    /\ done
    /\ Len(input) = 2
    /\ input[1].code = 402222
    /\ input[2].code = 402229
    /\ output.table.text = "execution threshold reached"
    /\ output.v2021.text = input[1].message

\* C12: for an empty error list Collapse returns the unknown error (the error
\* of an unrecognised code) with its generic message, and it returns an error
\* for every list.
C12_EmptyListIsUnknown ==
    pc = "collapse" /\ done =>
        /\ output.table.text # ""
        /\ output.v2021.text # ""
        /\ (input = <<>> =>
              /\ output.table = [text |-> "unknown error", code |-> 0]
              /\ output.v2021 = [text |-> "unknown error", code |-> 0])

\* The text the code table of the claim gives a code.
TableKind(c) ==
    CASE c \in {402222, 402223} -> "execution threshold reached"
      [] c \in {402224, 402225, 402226} -> "an internal error occured"
      [] c = 402229 -> "mandatory parameter value is empty"
      [] OTHER -> "unknown error"

\* C13: Collapse reduces codes to kinds by a fixed table: 402222 and 402223
\* give one kind, 402224, 402225 and 402226 another, 402229 the empty
\* mandatory parameter kind, and a code outside the table the unknown kind.
C13_ManyToOneTable ==
    pc = "collapse" /\ done /\ Len(input) > 0 =>
        /\ output.table.text = TableKind(input[1].code)
        /\ output.v2021.text = TableKind(input[1].code)

(***************************************************************************)
(* SubmitJob on one response.                                              *)
(***************************************************************************)
Statuses == {200, 201, 204, 299, 301, 400, 404, 500}

Bodies ==
    { NoBody, TruncatedBody,
      ErrorsBody(<<>>),
      ErrorsBody(<<Entry(402229, "m1")>>),
      ErrorsBody(<<Entry(999999, "m1")>>),
      ErrorsBody(<<Entry(402222, "m1"), Entry(402229, "m2")>>),
      JobBody(FALSE, ""),
      JobBody(TRUE, "L1"),
      JobBody(TRUE, "L2"),
      JobBody(TRUE, "%zz"),
      InstanceBody("RUNNING", "") }

Responses == {TransportFailure} \cup {Resp(s, b) : s \in Statuses, b \in Bodies}

InitSubmit ==
    /\ Idle("submit")
    /\ input \in Responses
    /\ output = SubmitResult("", NoErr, FALSE)
    /\ done = FALSE

ApplySubmit ==
    /\ pc = "submit"
    /\ ~done
    /\ output' = SubmitJob(input)
    /\ done' = TRUE
    /\ UNCHANGED <<mainVars, input>>

SpecSubmit == InitSubmit /\ [][ApplySubmit]_vars

Submitted == pc = "submit" /\ done /\ input.ok

\* C14 as stated: on HTTP 400 SubmitJob returns no handle but the error Collapse
\* produces, and an undecodable body degrades to the unknown API error.
C14_BadRequestAlwaysClassified ==
    Submitted /\ input.status = 400 =>
        /\ output.link = ""
        /\ output.err.kind = "API"
        /\ (input.body.type # "errors" => output.err.api.text = "unknown error")

\* C14 as amended: on HTTP 400 SubmitJob returns no handle; a body that decodes
\* as an error payload gives the error Collapse produces for it, and a body
\* that does not decode gives the different "couldn't read body" error, with
\* the status, without Collapse.
C14_BadRequestClassifiedOrUnreadable ==
    Submitted /\ input.status = 400 =>
        /\ output.link = ""
        /\ ~output.panics
        /\ output.err.status = 400
        /\ (input.body.type = "errors" =>
              /\ output.err.kind = "API"
              /\ output.err.api = Collapse(input.body.codes))
        /\ (input.body.type # "errors" =>
              /\ output.err.kind = "Unreadable"
              /\ output.err.api = NoAPI)

C14_Witness ==
    /\ Submitted
    /\ input.status = 400
    /\ input.body = NoBody
    /\ output.err.kind = "Unreadable"

\* C15 as stated: for every status 200..299 with a job record as body SubmitJob
\* returns the link of the record's additional_info and no error.
C15_Any2xxReturnsLink ==
    Submitted /\ input.status \in 200 .. 299
              /\ input.body.type = "job" /\ input.body.hasInfo =>
        /\ output.err = NoErr
        /\ output.link = input.body.link

\* C15 as amended: for status 200 with a job record as body SubmitJob returns
\* the link of the record's additional_info and no error; every other 2xx
\* status is a failure: no link, and an error with the status and the body.
C15_Only200ReturnsLink ==
    Submitted /\ input.status \in 200 .. 299
              /\ input.body.type = "job" /\ input.body.hasInfo =>
        IF input.status = 200
        THEN /\ output.err = NoErr
             /\ output.link = input.body.link
             /\ ~output.panics
        ELSE /\ output.link = ""
             /\ output.err.kind = "HTTPStatus"
             /\ output.err.status = input.status

C15_Witness ==
    /\ Submitted
    /\ input.status = 200
    /\ input.body = JobBody(TRUE, "L2")
    /\ output.link = "L2"
    /\ output.err = NoErr

\* C16: for a status that is neither 400 nor 2xx, SubmitJob returns an error
\* with the raw status and the raw body (of a body that could be read) and no
\* link, and Collapse is not invoked.
C16_OtherStatusIsTransportError ==
    Submitted /\ input.status # 400 /\ input.status \notin 200 .. 299 =>
        /\ output.link = ""
        /\ ~output.panics
        /\ output.err.status = input.status
        /\ output.err.api = NoAPI
        /\ (input.body.type # "truncated" =>
              /\ output.err.kind = "HTTPStatus"
              /\ output.err.detail = input.body.type)

C16_Witness ==
    /\ Submitted
    /\ input.status = 500
    /\ input.body.type = "errors"
    /\ output.err.kind = "HTTPStatus"
    /\ output.err.detail = "errors"

(***************************************************************************)
(* The XML mapping of AlmaJob and AlmaJobInstance (src/almajob.go).        *)
(* A document is a record of its attributes and elements; an optional      *)
(* attribute or element is <<>> when absent and <<v>> when present.  A     *)
(* struct value has "" for an unset string and <<>> for a nil pointer or   *)
(* slice.                                                                  *)
(***************************************************************************)
\* The string a string field takes from an optional attribute or element.
OptStr(o) == IF o = <<>> THEN "" ELSE o[1]

\* omitempty on a string field
OmitEmpty(v) == IF v = "" THEN <<>> ELSE <<v>>

\* DescAndValue: Desc `xml:"desc,attr,omitempty"`, Value `xml:",chardata"`
UnmarshalDescAndValue(e) == [Desc |-> OptStr(e.desc), Value |-> e.value]

\* MarshalDescAndValue that loses the desc attribute.
MarshalDescAndValueNoDesc(v) == [desc |-> <<>>, value |-> v.Value]

MarshalDescAndValue(v) == [desc |-> OmitEmpty(v.Desc), value |-> v.Value]

\* LinkAndValue: Link `xml:"link,attr,omitempty"`, Value `xml:",chardata"`
UnmarshalLinkAndValue(e) == [Link |-> OptStr(e.link), Value |-> e.value]

MarshalLinkAndValue(v) == [link |-> OmitEmpty(v.Link), value |-> v.Value]

\* Parameter: Name DescAndValue `xml:"name,omitempty"`, Value string `xml:"value,omitempty"`
\* UnmarshalParameter that loses the value element.
UnmarshalParameterNoValue(e) == [Name |-> UnmarshalDescAndValue(e.name), Value |-> ""]

UnmarshalParameter(e) == [Name |-> UnmarshalDescAndValue(e.name), Value |-> OptStr(e.value)]

MarshalParameter(v) == [name |-> MarshalDescAndValue(v.Name), value |-> OmitEmpty(v.Value)]

\* strconv.ParseFloat of the text of <progress>, in thousandths
ParseFloat(t) ==
    CASE t = "0" -> 0
      [] t = "50" -> 50000
      [] t = "50.0" -> 50000
      [] t = "50.776" -> 50776

\* strconv.FormatFloat(v, 'g', -1, 64) of a progress in thousandths
FormatFloat(v) ==
    CASE v = 0 -> "0"
      [] v = 50000 -> "50"
      [] v = 50776 -> "50.776"

\* xml.Unmarshal into an AlmaJob: unmapped elements are skipped.
UnmarshalJob(d) ==
    [XMLName |-> "job",
     Link |-> OptStr(d.link),
     ID |-> OptStr(d.id),
     Type |-> IF d.type = <<>> THEN <<>> ELSE <<UnmarshalDescAndValue(d.type[1])>>,
     Parameters |-> IF d.parameters = <<>> THEN <<>>
                    ELSE [j \in 1 .. Len(d.parameters[1]) |-> UnmarshalParameter(d.parameters[1][j])],
     AdditionalInfo |-> IF d.info = <<>> THEN <<>> ELSE <<UnmarshalLinkAndValue(d.info[1])>>]

\* xml.Marshal of an AlmaJob: fields in declaration order, omitempty applied.
MarshalJob(x) ==
    [kind |-> "job",
     link |-> OmitEmpty(x.Link),
     id |-> OmitEmpty(x.ID),
     type |-> IF x.Type = <<>> THEN <<>> ELSE <<MarshalDescAndValue(x.Type[1])>>,
     parameters |-> IF Len(x.Parameters) = 0 THEN <<>>
                    ELSE <<[j \in 1 .. Len(x.Parameters) |-> MarshalParameter(x.Parameters[j])]>>,
     info |-> IF x.AdditionalInfo = <<>> THEN <<>> ELSE <<MarshalLinkAndValue(x.AdditionalInfo[1])>>,
     extra |-> FALSE]

\* xml.Unmarshal into an AlmaJobInstance.
UnmarshalInstance(d) ==
    [XMLName |-> "job_instance",
     Link |-> OptStr(d.link),
     EndTime |-> OptStr(d.endTime),
     Progress |-> IF d.progress = <<>> THEN 0 ELSE ParseFloat(d.progress[1]),
     Status |-> IF d.status = <<>> THEN <<>> ELSE <<UnmarshalDescAndValue(d.status[1])>>,
     Alerts |-> IF d.alerts = <<>> THEN <<>>
                ELSE [j \in 1 .. Len(d.alerts[1]) |-> UnmarshalDescAndValue(d.alerts[1][j])]]

\* xml.Marshal of an AlmaJobInstance.
MarshalInstance(x) ==
    [kind |-> "job_instance",
     link |-> OmitEmpty(x.Link),
     endTime |-> OmitEmpty(x.EndTime),
     progress |-> IF x.Progress = 0 THEN <<>> ELSE <<FormatFloat(x.Progress)>>,
     status |-> IF x.Status = <<>> THEN <<>> ELSE <<MarshalDescAndValue(x.Status[1])>>,
     alerts |-> IF Len(x.Alerts) = 0 THEN <<>>
                ELSE <<[j \in 1 .. Len(x.Alerts) |-> MarshalDescAndValue(x.Alerts[j])]>>,
     extra |-> FALSE]

Unmarshal(d) == IF d.kind = "job" THEN UnmarshalJob(d) ELSE UnmarshalInstance(d)

Marshal(x) == IF x.XMLName = "job" THEN MarshalJob(x) ELSE MarshalInstance(x)

\* Longest parameter list explored.
MaxParams == 2

DescAndValueElements == {[desc |-> d, value |-> "T"] : d \in {<<>>, <<"">>, <<"d">>}}

ParameterElements ==
    {[name |-> [desc |-> d, value |-> n], value |-> v] :
        d \in {<<>>, <<"d">>}, n \in {"a", "b"}, v \in {<<"">>, <<"v">>}}

Optional(S) == {<<>>} \cup {<<e>> : e \in S}

JobDocuments ==
    [kind : {"job"},
     link : Optional({"jl"}),
     id : Optional({"", "J1"}),
     type : Optional(DescAndValueElements),
     parameters : Optional(SeqsUpTo(ParameterElements, MaxParams)),
     info : Optional({[link |-> <<"L1">>, value |-> "v"]}),
     extra : BOOLEAN]

InstanceDocuments ==
    [kind : {"job_instance"},
     link : Optional({"il"}),
     endTime : Optional({"", "t"}),
     progress : Optional({"0", "50", "50.0", "50.776"}),
     status : Optional(DescAndValueElements),
     alerts : Optional(SeqsUpTo({[desc |-> <<"ad">>, value |-> "A"]}, 1)),
     extra : BOOLEAN]

InitXML ==
    /\ Idle("xml")
    /\ input \in JobDocuments \cup InstanceDocuments
    /\ output = [value |-> <<>>, marshalled |-> <<>>, reparsed |-> <<>>]
    /\ done = FALSE

\* xml.Unmarshal, xml.Marshal of the value, and xml.Unmarshal of that.
ApplyXML ==
    /\ pc = "xml"
    /\ ~done
    /\ LET x == Unmarshal(input) IN
         output' = [value |-> <<x>>, marshalled |-> <<Marshal(x)>>,
                    reparsed |-> <<Unmarshal(Marshal(x))>>]
    /\ done' = TRUE
    /\ UNCHANGED <<mainVars, input>>

SpecXML == InitXML /\ [][ApplyXML]_vars

\* C17 as stated: unmarshal followed by marshal reproduces every well-formed
\* document, and parse(serialize(x)) = x for every value x that parse produces.
C17_RoundTripReproducesDocument ==
    pc = "xml" /\ done =>
        /\ output.marshalled = <<input>>
        /\ output.reparsed = output.value

\* A present but empty optional string.
IsEmptyOpt(o) == o = <<"">>

\* The document is in the form Marshal writes: no unmapped element, no empty
\* optional attribute or element, no empty list wrapper, numbers in shortest form.
CanonicalDocument(d) ==
    /\ ~d.extra
    /\ ~IsEmptyOpt(d.link)
    /\ IF d.kind = "job"
       THEN /\ ~IsEmptyOpt(d.id)
            /\ (d.type # <<>> => ~IsEmptyOpt(d.type[1].desc))
            /\ (d.parameters # <<>> =>
                  /\ Len(d.parameters[1]) > 0
                  /\ \A j \in 1 .. Len(d.parameters[1]) :
                        ~IsEmptyOpt(d.parameters[1][j].value))
       ELSE /\ ~IsEmptyOpt(d.endTime)
            /\ d.progress \notin {<<"0">>, <<"50.0">>}
            /\ (d.status # <<>> => ~IsEmptyOpt(d.status[1].desc))
            /\ (d.alerts # <<>> => Len(d.alerts[1]) > 0)

\* C17 as amended: parse(serialize(x)) = x for every value x that parse
\* produces, desc and link attributes and the order of the parameters included;
\* unmarshal followed by marshal reproduces the document when the document is
\* in the form marshal writes.
C17_RoundTripOfValues ==
    pc = "xml" /\ done =>
        /\ output.reparsed = output.value
        /\ (CanonicalDocument(input) => output.marshalled = <<input>>)
        /\ (input.kind = "job" /\ input.parameters # <<>> =>
              /\ Len(output.value[1].Parameters) = Len(input.parameters[1])
              /\ \A j \in 1 .. Len(input.parameters[1]) :
                    /\ output.value[1].Parameters[j].Name.Value = input.parameters[1][j].name.value
                    /\ output.value[1].Parameters[j].Name.Desc = OptStr(input.parameters[1][j].name.desc))

C17_Witness ==
    /\ pc = "xml"
    /\ done
    /\ input.kind = "job"
    /\ CanonicalDocument(input)
    /\ input.parameters # <<>>
    /\ Len(input.parameters[1]) = 2
    /\ input.parameters[1][1].name = [desc |-> <<"d">>, value |-> "b"]
    /\ input.parameters[1][2].name = [desc |-> <<>>, value |-> "a"]
    /\ input.info # <<>>
    /\ output.marshalled = <<input>>

(***************************************************************************)
(* LoadParameters as a function of the parameters file.                    *)
(***************************************************************************)
\* The zero AlmaJob, the value of the named result before Decode.
ZeroJob ==
    [XMLName |-> "", Link |-> "", ID |-> "", Type |-> <<>>,
     Parameters |-> <<>>, AdditionalInfo |-> <<>>]

\* A file is [opens, doc]: doc is <<>> when the content is not well-formed XML.
LoadParametersFile(f) ==
    IF ~f.opens THEN [job |-> ZeroJob, err |-> MkErr("Open", 0, "open params file")]
    ELSE IF f.doc = <<>> THEN [job |-> ZeroJob, err |-> MkErr("Decode", 0, "decode params file")]
    ELSE [job |-> UnmarshalJob(f.doc[1]), err |-> NoErr]

\* Documents holding nothing but a parameters element.
ParameterDocuments ==
    [kind : {"job"}, link : {<<>>}, id : {<<>>}, type : {<<>>},
     parameters : Optional(SeqsUpTo(ParameterElements, MaxParams)),
     info : {<<>>}, extra : {FALSE}]

ParameterFiles == [opens : BOOLEAN, doc : Optional(ParameterDocuments)]

InitLoad ==
    /\ Idle("load")
    /\ input \in ParameterFiles
    /\ output = [job |-> ZeroJob, err |-> NoErr]
    /\ done = FALSE

ApplyLoad ==
    /\ pc = "load"
    /\ ~done
    /\ output' = LoadParametersFile(input)
    /\ done' = TRUE
    /\ UNCHANGED <<mainVars, input>>

SpecLoad == InitLoad /\ [][ApplyLoad]_vars

\* The parameter elements of a parameters document, in document order.
DocumentParameters(d) == IF d.parameters = <<>> THEN <<>> ELSE d.parameters[1]

C19_BackoffIsExponential ==
    /\ \A j \in 2 .. Len(sleeps) : sleeps[j] > sleeps[j - 1]
    /\ \A j \in 2 .. Len(sleeps) - 1 :
          sleeps[j] * sleeps[j] = sleeps[j - 1] * sleeps[j + 1]

(***************************************************************************)
(* Two runs of RetrySubmitJob side by side.  Both runs have the same       *)
(* maxRetries and see the same success/failure pattern: the first          *)
(* input.failures calls of SubmitJob fail and the next one succeeds.  Each *)
(* run draws its own responses, so the kinds of the failures differ.       *)
(***************************************************************************)
NewRun ==
    [retry |-> 0, calls |-> 0, sleeps |-> <<>>, lastErr |-> NoErr,
     link |-> "", err |-> NoErr, result |-> "running"]

\* One pass through RetrySubmitJob that gives up on an API error.
RetryStepGivesUpOnAPIError(run, r, n) ==
    IF ~LoopContinues(run.retry, n)
    THEN [run EXCEPT !.result = "exhausted", !.link = "", !.err = ExhaustionError(run.lastErr)]
    ELSE LET res == SubmitJob(r) IN
         IF res.err # NoErr /\ res.err.kind = "API"
         THEN [run EXCEPT !.calls = @ + 1, !.lastErr = res.err,
                          !.result = "exhausted", !.link = "",
                          !.err = ExhaustionError(res.err)]
         ELSE IF res.err # NoErr
         THEN [run EXCEPT !.calls = @ + 1, !.lastErr = res.err,
                          !.sleeps = Append(@, SleepDur(run.retry)),
                          !.retry = @ + 1]
         ELSE [run EXCEPT !.calls = @ + 1, !.link = res.link, !.err = NoErr,
                          !.result = "returned"]

\* One pass through the loop of RetrySubmitJob, or its end, with response r
\* for the call of SubmitJob.
RetryStep(run, r, n) ==
    IF ~LoopContinues(run.retry, n)
    THEN [run EXCEPT !.result = "exhausted", !.link = "", !.err = ExhaustionError(run.lastErr)]
    ELSE LET res == SubmitJob(r) IN
         IF res.err # NoErr
         THEN [run EXCEPT !.calls = @ + 1, !.lastErr = res.err,
                          !.sleeps = Append(@, SleepDur(run.retry)),
                          !.retry = @ + 1]
         ELSE [run EXCEPT !.calls = @ + 1, !.link = res.link, !.err = NoErr,
                          !.result = "returned"]

\* The responses call number k + 1 may get under the pattern: failures first.
PatternResponses(k, failures) ==
    {r \in SubmitResponses :
        /\ ~SubmitJob(r).panics
        /\ (SubmitJob(r).err # NoErr) = (k < failures)}

Runs == {"a", "b"}

InitPair ==
    /\ Idle("pair")
    /\ input \in [maxRetries : 0 .. MaxRetriesBound, failures : 0 .. MaxRetriesBound]
    /\ output = [w \in Runs |-> NewRun]
    /\ done = FALSE

\* One of the two runs goes once through its loop.
ApplyRetryStep ==
    /\ pc = "pair"
    /\ \E w \in Runs :
         /\ output[w].result = "running"
         /\ \E r \in PatternResponses(output[w].calls, input.failures) :
              output' = [output EXCEPT ![w] = RetryStep(output[w], r, input.maxRetries)]
    /\ done' = \A w \in Runs : output'[w].result # "running"
    /\ UNCHANGED <<mainVars, input>>

SpecPair == InitPair /\ [][ApplyRetryStep]_vars

\* C20: two runs of RetrySubmitJob with the same maxRetries and the same
\* success/failure pattern of SubmitJob, whatever the kinds of the failures,
\* make the same number of submit calls, sleep the same sequence of durations
\* and end with the same result (a link returned, or the exhaustion error).
C20_FailureKindDoesNotMatter ==
    pc = "pair" /\ done =>
        /\ output["a"].calls = output["b"].calls
        /\ output["a"].sleeps = output["b"].sleeps
        /\ output["a"].result = output["b"].result
        /\ output["a"].err = output["b"].err

C20_Witness ==
    /\ pc = "pair"
    /\ done
    /\ input.maxRetries = 3
    /\ input.failures = 2
    /\ output["a"].lastErr.kind = "Transport"
    /\ output["b"].lastErr.kind = "API"
    /\ output["a"].sleeps = <<1, 4>>
    /\ output["a"].result = "returned"
    /\ output["b"].result = "returned"

\* C21: MonitorJobInstance makes at most 2760 fetches; each fetch that leaves
\* it in the loop is followed by one sleep of 30 seconds, so the sleeps add up
\* to at most 2760 * 30 s = 23 hours; once 2760 fetches were made its next step
\* returns.  In the loop i - 1 fetches, each followed by a sleep, were made.
C21_MonitorIsBounded ==
    /\ [](pc = "monitor" =>
            /\ i >= 1
            /\ i - 1 <= 2760
            /\ (i - 1) * PollSeconds <= 23 * 3600)
    /\ [][/\ (pc = "monitor" /\ pc' = "monitor" =>
                /\ i' = i + 1
                /\ lastOp' = "poll_sleep")
          /\ (pc = "monitor" /\ i - 1 = 2760 =>
                /\ pc' = "quit"
                /\ err' = ErrMonitorTimeout)]_vars

C21_Witness ==
    /\ pc = "quit"
    /\ fatal = "timeout"
    /\ err = ErrMonitorTimeout
    /\ lastOp = "poll_sleep"

\* C22: every snapshot GetJobInstance fetches without error is classified by
\* MonitorJobInstance as in progress (the loop goes on) or terminal (the loop
\* returns it), a snapshot without status or end_time included: no fetch that
\* succeeded ends the run in a panic.
C22_EverySnapshotIsClassified ==
    ~(/\ pc = "exited"
      /\ exitCode = 2
      /\ lastOp = "fetch"
      /\ lastFetched.ptr)

(***************************************************************************)
(* The response body as a stream: how far it was read and how often it was *)
(* closed.  pos is "start", "mid" (a prefix was read), "eof" or "failed"   *)
(* (a read returned an error: nothing more can be read).                   *)
(***************************************************************************)
NewStream(b) ==
    [truncated |-> b.type = "truncated", pos |-> "start", closed |-> 0,
     drainedAtClose |-> FALSE, readsAfterClose |-> 0]

\* One read operation moving the stream to position p.
ReadTo(st, p) ==
    IF st.closed > 0 THEN [st EXCEPT !.readsAfterClose = @ + 1]
    ELSE IF st.pos \in {"eof", "failed"} THEN st
    ELSE IF st.truncated THEN [st EXCEPT !.pos = "failed"]
    ELSE [st EXCEPT !.pos = p]

\* decoder.Decode: reads up to the end of the root element or to the error.
DecodeStream(st) == ReadTo(st, "mid")

\* io.Copy(ioutil.Discard, resp.Body)
DrainStream(st) == ReadTo(st, "eof")

\* ioutil.ReadAll(resp.Body)
ReadAllStream(st) == ReadTo(st, "eof")

\* resp.Body.Close()
CloseStream(st) ==
    [st EXCEPT !.closed = @ + 1,
               !.drainedAtClose = IF st.closed = 0 THEN st.pos \in {"eof", "failed"} ELSE @]

\* BodyOps that closes the body of a 200 response without draining it.
BodyOpsNoDrain(r) ==
    IF r.status = 400 THEN CloseStream(DrainStream(DecodeStream(NewStream(r.body))))
    ELSE IF ~StatusOK(r.status) THEN CloseStream(ReadAllStream(NewStream(r.body)))
    ELSE CloseStream(DecodeStream(NewStream(r.body)))

\* What SubmitJob and GetJobInstance do to the body of a received response:
\* the two functions have the same three branches.
BodyOps(r) ==
    IF r.status = 400 THEN CloseStream(DrainStream(DecodeStream(NewStream(r.body))))
    ELSE IF ~StatusOK(r.status) THEN CloseStream(ReadAllStream(NewStream(r.body)))
    ELSE CloseStream(DrainStream(DecodeStream(NewStream(r.body))))

InstanceBodies ==
    { InstanceBody("COMPLETED_SUCCESS", "t"), InstanceBody("RUNNING", ""),
      InstanceBody(Nil, "t") }

ReceivedResponses == {Resp(s, b) : s \in Statuses, b \in Bodies \cup InstanceBodies}

InitBody ==
    /\ Idle("body")
    /\ input \in [fn : {"SubmitJob", "GetJobInstance"}, resp : ReceivedResponses]
    /\ output = NewStream(NoBody)
    /\ done = FALSE

ApplyBody ==
    /\ pc = "body"
    /\ ~done
    /\ output' = BodyOps(input.resp)
    /\ done' = TRUE
    /\ UNCHANGED <<mainVars, input>>

SpecBody == InitBody /\ [][ApplyBody]_vars

\* C23: on every path of SubmitJob and GetJobInstance that follows a received
\* response the body is closed exactly once, it was read to the end (or to the
\* read error) when it was closed, and it is not read afterwards.
C23_BodyDrainedAndClosedOnce ==
    pc = "body" /\ done =>
        /\ output.closed = 1
        /\ output.drainedAtClose
        /\ output.readsAfterClose = 0
        /\ (~output.truncated => output.pos = "eof")

C23_Witness ==
    /\ pc = "body"
    /\ done
    /\ input.fn = "GetJobInstance"
    /\ input.resp.status = 200
    /\ input.resp.body.type = "garbage"
    /\ output.closed = 1
    /\ output.pos = "eof"

(***************************************************************************)
(* RetrySubmitJob with the request bodies it sends.  params is passed by   *)
(* value to RetrySubmitJob and on to SubmitJob, which encodes it into a    *)
(* fresh buffer for every call.                                            *)
(***************************************************************************)
\* EncodeParams that empties the parameter list it has encoded.
EncodeParamsConsumes(p) ==
    [body |-> MarshalJob(p), params |-> [p EXCEPT !.Parameters = <<>>]]

\* encoder.Encode(params) into marshaledParams: the body, and params afterwards.
EncodeParams(p) == [body |-> MarshalJob(p), params |-> p]

\* The values LoadParameters returns for the well-formed parameter files.
LoadedParams ==
    {LoadParametersFile([opens |-> TRUE, doc |-> <<d>>]).job : d \in ParameterDocuments}

InitSend ==
    /\ Idle("send")
    /\ input \in [maxRetries : 0 .. MaxRetriesBound, loadedParams : LoadedParams]
    /\ output = [run |-> NewRun, params |-> input.loadedParams, sent |-> <<>>]
    /\ done = FALSE

\* One pass through the loop of RetrySubmitJob: SubmitJob encodes params,
\* posts the body and handles the response.
ApplySend ==
    /\ pc = "send"
    /\ output.run.result = "running"
    /\ \E r \in {x \in SubmitResponses : ~SubmitJob(x).panics} :
         LET enc == EncodeParams(output.params)
             calls == LoopContinues(output.run.retry, input.maxRetries)
         IN  /\ output' = [run |-> RetryStep(output.run, r, input.maxRetries),
                           params |-> IF calls THEN enc.params ELSE output.params,
                           sent |-> IF calls THEN Append(output.sent, enc.body)
                                    ELSE output.sent]
             /\ done' = (RetryStep(output.run, r, input.maxRetries).result # "running")
    /\ UNCHANGED <<mainVars, input>>

SpecSend == InitSend /\ [][ApplySend]_vars

\* C24: after any number of SubmitJob calls made by RetrySubmitJob the loaded
\* parameters are the value LoadParameters returned, one request body was sent
\* per call, and every body equals the first one.
C24_ParamsUnchangedBySubmission ==
    pc = "send" =>
        /\ output.params = input.loadedParams
        /\ Len(output.sent) = output.run.calls
        /\ \A j \in 1 .. Len(output.sent) : output.sent[j] = output.sent[1]

C24_Witness ==
    /\ pc = "send"
    /\ done
    /\ Len(output.sent) = 3
    /\ output.run.result = "returned"
    /\ Len(input.loadedParams.Parameters) = 2
    /\ output.sent[3].parameters # <<>>
    /\ output.params = input.loadedParams

(***************************************************************************)
(* GetJobInstance as a function of the response.                           *)
(***************************************************************************)
InitGet ==
    /\ Idle("get")
    /\ input \in {TransportFailure} \cup ReceivedResponses
    /\ output = GetResult(NilInstance, NoErr)
    /\ done = FALSE

ApplyGet ==
    /\ pc = "get"
    /\ ~done
    /\ output' = GetJobInstance(input)
    /\ done' = TRUE
    /\ UNCHANGED <<mainVars, input>>

SpecGet == InitGet /\ [][ApplyGet]_vars

\* C25: GetJobInstance follows the response rules of SubmitJob.  A 400 whose
\* body parses as an error payload gives the error Collapse produces; a status
\* that is neither 400 nor a success status gives an error with the raw status
\* and the raw body (of a body that could be read); a snapshot without error
\* comes only from a success status with a body that parses as a job instance;
\* and whenever the status is not 200 the error is the one SubmitJob returns
\* for the same response.
C25_GetFollowsSubmitRules ==
    pc = "get" /\ done =>
        /\ (input.ok /\ input.status = 400 /\ input.body.type = "errors" =>
              output.err = APIErr(400, Collapse(input.body.codes)))
        /\ (input.ok /\ input.status # 400 /\ input.status \notin 200 .. 299
                /\ input.body.type # "truncated" =>
              /\ output.err.kind = "HTTPStatus"
              /\ output.err.status = input.status
              /\ output.err.detail = input.body.type
              /\ output.err.api = NoAPI)
        /\ (output.err = NoErr =>
              /\ input.ok
              /\ input.status \in 200 .. 299
              /\ input.body.type = "instance"
              /\ output.instance.status = input.body.status
              /\ output.instance.endTime = input.body.endTime)
        /\ (output.err # NoErr => output.instance = EmptyInstance)
        /\ (~input.ok \/ input.status # 200 => output.err = SubmitJob(input).err)

C25_Witness ==
    /\ pc = "get"
    /\ done
    /\ input.ok
    /\ input.status = 400
    /\ input.body.type = "errors"
    /\ Len(input.body.codes) = 2
    /\ output.err.kind = "API"
    /\ output.err = SubmitJob(input).err

(***************************************************************************)
(* main when every network call and every sleep returns: the sequential    *)
(* program always takes its next step.                                     *)
(***************************************************************************)
SpecLive == Spec /\ WF_vars(Next)

\* C26: when every network call and every sleep returns, every run of main
\* ends.  It ends with status 0 after submit, monitor and report in that order
\* (a link was returned, then a terminal snapshot, then the report), or with a
\* non-zero status after a fatal error.
C26_MainTerminates ==
    /\ <>(pc = "exited")
    /\ [](pc = "exited" =>
            \/ /\ exitCode = 0
               /\ fatal = "none"
               /\ lastLink # Nil
               /\ instance.ptr
               /\ IsTerminal(instance)
            \/ /\ exitCode # 0
               /\ fatal # "none")
    /\ [][/\ (pc' = "parse_link" => pc = "retry")
          /\ (pc' = "monitor" => pc \in {"parse_link", "monitor"})
          /\ (pc' = "report" => pc = "monitor")
          /\ (pc' = "success_email" => pc = "report")
          /\ (pc' = "exited" /\ exitCode' = 0 => pc = "success_email")]_vars

C26_Witness ==
    /\ pc = "exited"
    /\ exitCode = 0
    /\ Len(sleeps) = 2
    /\ lastFetched.status = "COMPLETED"
    /\ ~sendEmail

\* C27: for every response it receives SubmitJob returns a link or an error
\* and never aborts the process, a 200 response with a well-formed job record
\* without additional_info included.
C27_SubmitJobNeverAborts ==
    pc = "submit" /\ done /\ input.ok =>
        /\ ~output.panics
        /\ (output.err = NoErr \/ output.link = "")

\* C28: in every run (that got past the checks of the flags) at most one report
\* email is attempted; with email enabled a run that has ended made exactly
\* one attempt, the error report when the exit status is non-zero and the
\* success report when it is 0; with email disabled no attempt is made; and the
\* exit status does not depend on whether the delivery succeeded.
C28_ExactlyOneReport ==
    fatal # "flags" =>
        /\ Len(emails) <= 1
        /\ (~sendEmail => emails = <<>>)
        /\ (pc = "exited" /\ sendEmail =>
              /\ Len(emails) = 1
              /\ (exitCode = 0 <=> emails[1].subject = "status")
              /\ (exitCode # 0 <=> emails[1].subject = "error"))
====
